---- MODULE Spec2Model ----
(***************************************************************************)
(* A model of healpy/projector.py: the SphericalProj base class, the       *)
(* GnomonicProj and MollweideProj projections, the class-level Mollweide   *)
(* table and the projmap resampling.                                       *)
(*                                                                         *)
(* Numbers.  A numpy float is modelled as an extended rational <<n, d>>    *)
(* in lowest terms with d >= 0: <<0,0>> is NaN, <<1,0>> and <<-1,0>> are   *)
(* +inf and -inf.  Arithmetic is exact; pi is the rational 355/113.        *)
(* Results of sqrt, arcsin, sin and cos on in-domain arguments are kept    *)
(* as symbolic terms (tuples naming the inputs they were computed from).   *)
(* Where the outcome depends on rounding (z and sz of MollweideProj.xy2vec *)
(* next to the poles) the value is computed in binary64: <<s, m, e>> is    *)
(* s * m * 2^e with m an odd natural of at most 53 bits held as limbs.     *)
(***************************************************************************)
EXTENDS Integers, Sequences, FiniteSets, TLC

\* ------------------------------------------------------------------------
\* Bounds of the model (not program constants)
\* ------------------------------------------------------------------------
MaxGnomonicSize == 3
MaxMollweideSize == 8
MaxCells == 32
NPix == 2
NThreads == 2

\* ------------------------------------------------------------------------
\* Extended rational arithmetic (numpy float semantics for + - * / compare)
\* ------------------------------------------------------------------------
Abs(n) == IF n < 0 THEN -n ELSE n

Sign(n) == IF n < 0 THEN -1 ELSE IF n > 0 THEN 1 ELSE 0

RECURSIVE GCD(_, _)
GCD(a, b) == IF b = 0 THEN a ELSE GCD(b, a % b)

Norm(n, d) ==
    LET over(g) == <<(Sign(d) * n) \div g, Abs(d) \div g>>
    IN  IF d = 0 THEN <<Sign(n), 0>> ELSE over(GCD(Abs(n), Abs(d)))

F(n) == <<n, 1>>

NaN == <<0, 0>>

NegInf == <<-1, 0>>

IsNaN(a) == a = NaN

IsInf(a) == a[2] = 0 /\ a[1] # 0

Neg(a) == <<-a[1], a[2]>>

Add(a, b) ==
    IF IsNaN(a) \/ IsNaN(b) THEN NaN
    ELSE IF IsInf(a) /\ IsInf(b) THEN (IF a = b THEN a ELSE NaN)
    ELSE IF IsInf(a) THEN a
    ELSE IF IsInf(b) THEN b
    ELSE LET g == GCD(a[2], b[2])
         IN  Norm(a[1] * (b[2] \div g) + b[1] * (a[2] \div g), a[2] * (b[2] \div g))

Sub(a, b) == Add(a, Neg(b))

Mul(a, b) ==
    IF IsNaN(a) \/ IsNaN(b) THEN NaN
    ELSE IF IsInf(a) \/ IsInf(b)
         THEN <<Sign(a[1]) * Sign(b[1]), 0>>
    ELSE LET g1 == GCD(Abs(a[1]), b[2])
             g2 == GCD(Abs(b[1]), a[2])
         IN  Norm((a[1] \div g1) * (b[1] \div g2),
                  (a[2] \div g2) * (b[2] \div g1))

Div(a, b) ==
    Mul(a, IF IsNaN(b) THEN NaN
           ELSE IF IsInf(b) THEN F(0)
           ELSE IF b[1] = 0 THEN <<1, 0>>
           ELSE Norm(b[2], b[1]))

Gt(a, b) == ~IsNaN(a) /\ ~IsNaN(b) /\ a[1] * b[2] > b[1] * a[2]

Le(a, b) == ~IsNaN(a) /\ ~IsNaN(b) /\ a[1] * b[2] <= b[1] * a[2]

\* npy.around: round half to even; NaN and infinities pass through
around(a) ==
    IF a[2] = 0 THEN a
    ELSE LET fl  == a[1] \div a[2]
             rem == a[1] - fl * a[2]
         IN  IF 2 * rem < a[2] THEN F(fl)
             ELSE IF 2 * rem > a[2] THEN F(fl + 1)
             ELSE IF fl % 2 = 0 THEN F(fl) ELSE F(fl + 1)

\* ------------------------------------------------------------------------
\* Module constants
\* ------------------------------------------------------------------------
pi == <<355, 113>>

dtor == Div(pi, F(180))

\* ------------------------------------------------------------------------
\* Python values
\* ------------------------------------------------------------------------
\* Python's None where an integer or a size is expected
None == -1000

\* the result of float-to-long conversion of NaN or infinity is undefined:
\* the outcomes builds produce (-1000000 stands for the most negative long)
NanCastOutcomes == {F(-1000000), F(0)}

\* what a call did: returned a value, returned None, or raised
Returned(v) == [kind |-> "value", exc |-> "", val |-> v]

ReturnedNone == [kind |-> "none", exc |-> "", val |-> <<>>]

Raised(e) == [kind |-> "raise", exc |-> e, val |-> <<>>]

\* ------------------------------------------------------------------------
\* MollweideProj.__molldata and its construction
\* ------------------------------------------------------------------------
\* a variant of arange that also yields the stop value
arange_closed(start, stop, step) ==
    [n \in 1..(((stop - start) \div step) + 1) |-> F(start + (n - 1) * step)]

\* npy.arange(start, stop, step) for integral arguments
arange(start, stop, step) ==
    [n \in 1..((stop - start + step - 1) \div step) |-> F(start + (n - 1) * step)]

\* a Newton iterate is kept symbolically: <<seed numerator, seed denominator,
\* number of Newton steps applied>>; one pass of the loop body "x += dx"
NewtonStep(x) == <<x[1], x[2], x[3] + 1>>

Min(a, b) == IF a < b THEN a ELSE b

RECURSIVE findRootLoop(_, _, _)
findRootLoop(x, i, niter) ==
    IF i < niter THEN findRootLoop([k \in DOMAIN x |-> NewtonStep(x[k])], i + 1, niter)
    ELSE x

findRoot(x0, niter) ==
    findRootLoop([k \in DOMAIN x0 |-> <<x0[k][1], x0[k][2], 0>>], 0,
                 Min(Abs(niter), 1000))

\* the two arrays __initialise_data computes when the table is empty
molldataX ==
    LET X == [k \in DOMAIN arange(1, 180, 1) |->
                 Mul(Sub(arange(1, 180, 1)[k], F(90)), dtor)]
    IN  <<Neg(Div(pi, F(2)))>> \o X \o <<Div(pi, F(2))>>

molldataY ==
    LET X == [k \in DOMAIN arange(1, 180, 1) |->
                 Mul(Sub(arange(1, 180, 1)[k], F(90)), dtor)]
        Y == findRoot(X, 10)
    IN  <<Neg(Div(pi, F(2)))>> \o Y \o <<Div(pi, F(2))>>

\* the guard of __initialise_data: len(MollweideProj.__molldata) == 0
initialise_check(md) == Len(md) = 0

\* a variant of append that adds nothing to a table already holding X and Y
molldata_append_once(md, a) == IF Len(md) >= 2 THEN md ELSE Append(md, a)

\* MollweideProj.__molldata.append(a)
molldata_append(md, a) == Append(md, a)

\* a variant of __initialise_data without the emptiness guard
initialise_data_unguarded(md) ==
    molldata_append(molldata_append(md, molldataX), molldataY)

\* __initialise_data run without interruption
initialise_data(md) ==
    IF initialise_check(md)
    THEN molldata_append(molldata_append(md, molldataX), molldataY)
    ELSE md

\* ------------------------------------------------------------------------
\* The Rotator collaborator (rotator.py): exact quarter-turn rotations
\* ------------------------------------------------------------------------
Rots == {0, 1}

\* negation of a component, numeric <<n, d>> or symbolic <<sign, ...>>
NegC(c) == [c EXCEPT ![1] = -c[1]]

\* Rotator(rot)(vec): rot = 0 is the identity, rot = 1 a quarter turn about z
rotator(rot, v) ==
    IF rot = 0 THEN v ELSE <<v[2], NegC(v[1]), v[3]>>

\* Rotator(rot).I(vec): the inverse rotation
rotatorI(rot, v) ==
    IF rot = 0 THEN v ELSE <<NegC(v[2]), v[1], v[3]>>

\* ------------------------------------------------------------------------
\* Projection objects
\* ------------------------------------------------------------------------
NoArrayInfo == [isNone |-> TRUE, xsize |-> None, ysize |-> None, reso |-> NaN]

ArrayInfo(xsize, ysize, reso) ==
    [isNone |-> FALSE, xsize |-> xsize, ysize |-> ysize, reso |-> reso]

\* no projection object is bound yet
NoProj == [cls |-> "", flip |-> 0, arrayinfo |-> NoArrayInfo, rot |-> 0]

\* a variant of set_flip that takes every unknown convention for the default
set_flip_lenient(flipconv) ==
    IF flipconv = "geo" THEN 1 ELSE -1

\* SphericalProj.set_flip: the multiplier, or 0 when ValueError is raised
set_flip(flipconv) ==
    LET fc == IF flipconv = "None" THEN "astro" ELSE flipconv
    IN  IF fc = "astro" THEN -1
        ELSE IF fc = "geo" THEN 1
        ELSE 0

\* SphericalProj.set_proj_plane_info(**kwds) for the keywords xsize, ysize, reso
\* (None and NaN stand for a keyword whose value is None)
set_proj_plane_info(xsize, ysize, reso) ==
    LET allNone == xsize = None /\ ysize = None /\ IsNaN(reso)
    IN  IF ~allNone THEN ArrayInfo(xsize, ysize, reso) ELSE NoArrayInfo

\* GnomonicProj.set_proj_plane_info: defaults, then the base method
Gnomonic_set_proj_plane_info(xsize, ysize, reso) ==
    LET xs == IF xsize = None THEN 200 ELSE xsize
        ys == IF ysize = None THEN xs ELSE ysize
        rs == IF IsNaN(reso) THEN <<3, 2>> ELSE reso
    IN  set_proj_plane_info(xs, ys, rs)

\* MollweideProj.set_proj_plane_info(xsize)
Mollweide_set_proj_plane_info(xsize) ==
    set_proj_plane_info(xsize, None, NaN)

\* a variant of the guard of the index conversions that never fires
arrayinfo_never_None(self) == FALSE

\* "if self.arrayinfo is None", the guard opening xy2ij and ij2xy
arrayinfo_is_None(self) == self.arrayinfo.isNone

\* SphericalProj.__init__ for class cls, given the class's plane-info method's
\* result: the new object, or NoProj when set_flip raises
SphericalProj_init(cls, rot, flipconv, info) ==
    IF set_flip(flipconv) = 0 THEN NoProj
    ELSE [cls |-> cls, flip |-> set_flip(flipconv), arrayinfo |-> info, rot |-> rot]

\* ------------------------------------------------------------------------
\* Arguments: an index argument is <<tag, a, b>> with tag 0 for None, 1 for
\* the integer a, 2 for the pair (a, b); a coordinate argument likewise with
\* floats
\* ------------------------------------------------------------------------
INone == <<0, 0, 0>>

IInt(a) == <<1, a, 0>>

IPair(a, b) == <<2, a, b>>

XNone == <<0, NaN, NaN>>

XNum(x) == <<1, x, NaN>>

XPair(x, y) == <<2, x, y>>

\* ------------------------------------------------------------------------
\* numpy helpers
\* ------------------------------------------------------------------------
ones(n) == [k \in 1..n |-> F(1)]

outer(u, v) == [a \in 1..Len(u) |-> [b \in 1..Len(v) |-> Mul(u[a], v[b])]]

\* .astype(long): an integral float is kept, NaN and infinities give the
\* undefined outcome ub
astype_long(a, ub) == IF a[2] = 0 THEN ub ELSE a

\* x**2/4. + y**2 > 1.
OutsideEllipse(x, y) ==
    Gt(Add(Div(Mul(x, x), F(4)), Mul(y, y)), F(1))

\* ------------------------------------------------------------------------
\* GnomonicProj index conversions
\* ------------------------------------------------------------------------
Gnomonic_dx(self) == Mul(Div(self.arrayinfo.reso, F(60)), dtor)

Gnomonic_xc(self) == Mul(<<1, 2>>, F(self.arrayinfo.xsize - 1))

Gnomonic_yc(self) == Mul(<<1, 2>>, F(self.arrayinfo.ysize - 1))

Gnomonic_xy2ij(self, x, y, ub) ==
    IF arrayinfo_is_None(self) THEN Raised("TypeError")
    ELSE IF y[1] = 0 /\ x[1] # 2 THEN Raised("TypeError")
    ELSE Returned(<<astype_long(around(Sub(Gnomonic_yc(self),
                        Div(IF y[1] = 0 THEN x[3] ELSE y[2], Gnomonic_dx(self)))), ub),
                    astype_long(around(Add(Gnomonic_xc(self),
                        Div(x[2], Gnomonic_dx(self)))), ub)>>)

Gnomonic_ij2xy(self, i, j) ==
    LET xsize == self.arrayinfo.xsize
        ysize == self.arrayinfo.ysize
        X(jj) == Mul(Sub(jj, Gnomonic_xc(self)), Gnomonic_dx(self))
        Y(ii) == Mul(Sub(Gnomonic_yc(self), ii), Gnomonic_dx(self))
    IN  IF arrayinfo_is_None(self) THEN Raised("TypeError")
        ELSE IF i[1] = 0 /\ j[1] = 0
        THEN Returned([x |-> [a \in 1..xsize |-> [b \in 1..ysize |->
                                X(outer(ones(xsize), arange(0, ysize, 1))[a][b])]],
                       y |-> [a \in 1..xsize |-> [b \in 1..ysize |->
                                Y(outer(arange(0, xsize, 1), ones(ysize))[a][b])]],
                       masked |-> FALSE,
                       mask |-> <<>>])
        \* j without i: "Wrong parameters"; an integer i without j: "i, j = i"
        ELSE IF i[1] = 0 \/ (j[1] = 0 /\ i[1] # 2) THEN Raised("TypeError")
        ELSE Returned(<<X(F(IF j[1] # 0 THEN j[2] ELSE i[3])), Y(F(i[2]))>>)

\* ------------------------------------------------------------------------
\* MollweideProj index conversions
\* ------------------------------------------------------------------------
Mollweide_ysize(self) == self.arrayinfo.xsize \div 2

Mollweide_xc(self) == Div(F(self.arrayinfo.xsize - 1), F(2))

Mollweide_yc(self) == Div(F(Mollweide_ysize(self) - 1), F(2))

\* variant of MollweideProj.xy2ij with the row computed as yc + y*yc
Mollweide_xy2ij_rowsign(self, x, y, ub) ==
    LET at(px, py, xc, yc) ==
            IF OutsideEllipse(px, py) THEN Returned(<<NaN, NaN>>)
            ELSE Returned(<<astype_long(around(Add(yc, Mul(py, yc))), ub),
                            astype_long(around(Add(Div(Mul(px, xc), F(2)), xc)), ub)>>)
    IN  IF arrayinfo_is_None(self) THEN Raised("TypeError")
        ELSE IF y[1] = 0 /\ x[1] # 2 THEN Raised("TypeError")
        ELSE at(x[2], IF y[1] = 0 THEN x[3] ELSE y[2], Mollweide_xc(self), Mollweide_yc(self))

Mollweide_xy2ij(self, x, y, ub) ==
    LET at(px, py, xc, yc) ==
            IF OutsideEllipse(px, py) THEN Returned(<<NaN, NaN>>)
            ELSE Returned(<<astype_long(around(Sub(yc, Mul(py, yc))), ub),
                            astype_long(around(Add(Div(Mul(px, xc), F(2)), xc)), ub)>>)
    IN  IF arrayinfo_is_None(self) THEN Raised("TypeError")
        ELSE IF y[1] = 0 /\ x[1] # 2 THEN Raised("TypeError")
        ELSE at(x[2], IF y[1] = 0 THEN x[3] ELSE y[2], Mollweide_xc(self), Mollweide_yc(self))

Mollweide_ij2xy(self, i, j) ==
    LET xsize == self.arrayinfo.xsize
        ysize == Mollweide_ysize(self)
        X(jj) == Div(Mul(F(2), Sub(jj, Mollweide_xc(self))), Mollweide_xc(self))
        Y(ii) == Div(Sub(Mollweide_yc(self), ii), Mollweide_yc(self))
        \* a point outside the ellipse is masked
        P(px, py) == IF OutsideEllipse(px, py) THEN <<NaN, NaN>> ELSE <<px, py>>
        packed(gx, gy, mask, any) ==
            Returned([x |-> gx, y |-> gy, masked |-> any,
                      mask |-> IF any THEN mask ELSE <<>>])
        masked(gx, gy, mask) ==
            packed(gx, gy, mask, \E a \in DOMAIN mask : \E b \in DOMAIN mask[a] : mask[a][b])
        grid(gx, gy) ==
            masked(gx, gy, [a \in DOMAIN gx |-> [b \in DOMAIN gx[a] |->
                               OutsideEllipse(gx[a][b], gy[a][b])]])
    IN  IF arrayinfo_is_None(self) THEN Raised("TypeError")
        ELSE IF i[1] = 0 /\ j[1] = 0
        THEN grid([a \in 1..ysize |-> [b \in 1..xsize |->
                      X(outer(ones(ysize), arange(0, xsize, 1))[a][b])]],
                  [a \in 1..ysize |-> [b \in 1..xsize |->
                      Y(outer(arange(0, ysize, 1), ones(xsize))[a][b])]])
        \* j without i: "Wrong parameters"; an integer i without j: "i, j = i"
        ELSE IF i[1] = 0 \/ (j[1] = 0 /\ i[1] # 2) THEN Raised("TypeError")
        ELSE Returned(P(X(F(IF j[1] # 0 THEN j[2] ELSE i[3])), Y(F(i[2]))))

\* ------------------------------------------------------------------------
\* binary64 arithmetic.  Whether MollweideProj.xy2vec takes the square root of
\* a negative number in "sz = npy.sqrt((1-z)*(1+z))" depends on how z was
\* rounded, so z is computed as Python floats compute it: every operation
\* returns the binary64 value nearest to the exact result, ties to even.
\* ------------------------------------------------------------------------
\* naturals of any size: little-endian sequences of limbs below Base, without
\* a most significant zero limb
Base == 32768
LimbBits == 15

Pow2(k) == <<1, 2, 4, 8, 16, 32, 64, 128, 256, 512, 1024, 2048, 4096, 8192, 16384, 32768>>[k + 1]

\* a without its most significant zero limbs, as a tuple
BTrim(a) ==
    LET upTo(t) == SubSeq(t, 1, CHOOSE k \in 0..Len(t) :
                                    (k = 0 \/ t[k] # 0) /\ \A j \in (k + 1)..Len(t) : t[j] = 0)
    IN  upTo(SubSeq(a, 1, Len(a)))

BFromInt(n) == BTrim(<<n % Base, (n \div Base) % Base, n \div (Base * Base)>>)

Limb(a, k) == IF 1 <= k /\ k <= Len(a) THEN a[k] ELSE 0

\* a + b, from the limb sums s: the carry into limb k comes from a limb below
\* that overflows, through limbs that pass a carry on
BAdd(a, b) ==
    LET carried(s, n) ==
            BTrim([k \in 1..n |->
                      (s[k] + (IF \E j \in 1..(k - 1) :
                                     s[j] >= Base /\ \A i \in (j + 1)..(k - 1) : s[i] = Base - 1
                               THEN 1 ELSE 0)) % Base])
    IN  carried([k \in 1..(Len(a) + Len(b) + 1) |-> Limb(a, k) + Limb(b, k)],
                Len(a) + Len(b) + 1)

\* a - b for a >= b, from the limb differences d, with the borrows found the
\* same way
BSub(a, b) ==
    LET borrowed(d) ==
            BTrim([k \in 1..Len(a) |->
                      (d[k] - (IF \E j \in 1..(k - 1) :
                                     d[j] < 0 /\ \A i \in (j + 1)..(k - 1) : d[i] = 0
                               THEN 1 ELSE 0)) % Base])
    IN  borrowed([k \in 1..Len(a) |-> a[k] - Limb(b, k)])

BCmp(a, b) ==
    IF Len(a) > Len(b) THEN 1
    ELSE IF Len(a) < Len(b) THEN -1
    ELSE IF a = b THEN 0
    ELSE LET k == CHOOSE k \in 1..Len(a) :
                      a[k] # b[k] /\ \A j \in (k + 1)..Len(a) : a[j] = b[j]
         IN  IF a[k] > b[k] THEN 1 ELSE -1

Zeros(n) == [k \in 1..n |-> 0]

\* a times one limb x
BMulSmall(a, x) ==
    BAdd([k \in 1..Len(a) |-> (a[k] * x) % Base],
         <<0>> \o [k \in 1..Len(a) |-> (a[k] * x) \div Base])

\* a * Base + x
BCons(x, a) == BTrim(<<x>> \o a)

\* a * b, one limb of b after the other: a * b[1] + Base * (a * the rest of b)
RECURSIVE BMul(_, _)
BMul(a, b) ==
    IF Len(b) = 0 THEN <<>>
    ELSE BAdd(BMulSmall(a, b[1]), BCons(0, BMul(a, Tail(b))))

\* a * 2^s
BShl(a, s) ==
    IF Len(a) = 0 THEN a
    ELSE Zeros(s \div LimbBits) \o
         BTrim([k \in 1..(Len(a) + 1) |->
                   ((Limb(a, k) * Pow2(s % LimbBits)) % Base)
                   + (Limb(a, k - 1) \div Pow2(LimbBits - (s % LimbBits)))])

\* floor of a / 2^s
BShr(a, s) ==
    IF s \div LimbBits >= Len(a) THEN <<>>
    ELSE BTrim([k \in 1..(Len(a) - s \div LimbBits) |->
                   (Limb(a, k + s \div LimbBits) \div Pow2(s % LimbBits))
                   + ((Limb(a, k + s \div LimbBits + 1) % Pow2(s % LimbBits))
                      * Pow2(LimbBits - (s % LimbBits)))])

BBit(a, i) == (Limb(a, i \div LimbBits + 1) \div Pow2(i % LimbBits)) % 2

\* the k lowest bits of a are zero
BLowZero(a, k) ==
    /\ \A j \in 1..(k \div LimbBits) : Limb(a, j) = 0
    /\ Limb(a, k \div LimbBits + 1) % Pow2(k % LimbBits) = 0

\* the number of bits of a limb
IntBitLen(n) == CHOOSE k \in 0..LimbBits : (k = 0 \/ Pow2(k - 1) <= n) /\ (k = LimbBits \/ n < Pow2(k))

BBitLen(a) == IF Len(a) = 0 THEN 0 ELSE LimbBits * (Len(a) - 1) + IntBitLen(a[Len(a)])

\* the number of trailing zero bits of a # 0
BTrailingZeros(a) ==
    LET bits(k) == LimbBits * (k - 1)
                   + CHOOSE t \in 0..(LimbBits - 1) :
                         a[k] % Pow2(t) = 0 /\ (a[k] \div Pow2(t)) % 2 = 1
    IN  bits(CHOOSE k \in 1..Len(a) : a[k] # 0 /\ \A j \in 1..(k - 1) : a[j] = 0)

\* one limb of the quotient of r by d, for r < d * Base and d with a most
\* significant limb of at least Base / 2: the largest x with d * x <= r,
\* counted down from an estimate that is not too small
RECURSIVE BDivDigit(_, _, _)
BDivDigit(d, r, x) ==
    IF BCmp(BMulSmall(d, x), r) <= 0 THEN x ELSE BDivDigit(d, r, x - 1)

\* long division, from the most significant limb of n down: r is the remainder
\* so far with limb k of n brought down, and the estimate of the next digit
\* comes from the leading limbs of r and d (at most 2 too large).  The least
\* significant limb of the result says whether a remainder is left.
RECURSIVE BDivFrom(_, _, _, _)
BDivFrom(n, d, k, r) ==
    LET emit(x) ==
            BDivFrom(n, d, k - 1, BCons(Limb(n, k - 1), BSub(r, BMulSmall(d, x))))
            \o <<x>>
    IN  IF k = 0 THEN <<IF Len(r) = 0 THEN 0 ELSE 1>>
        ELSE emit(BDivDigit(d, r, Min(Base - 1, (Limb(r, Len(d) + 1) * Base
                                                 + Limb(r, Len(d))) \div d[Len(d)])))

\* floor(n / d) * Base + (1 if d does not divide n, else 0), for d with a most
\* significant limb of at least Base / 2 and Len(n) >= Len(d); the leading
\* limbs of n, as many as d has, are the first remainder
BDiv(n, d) ==
    BTrim(BDivFrom(n, d, Len(n) - Len(d) + 1,
                   BTrim(SubSeq(n, Len(n) - Len(d) + 1, Len(n)))))

\* floor of the square root of an integer n, 0 < n < Base * Base, by Newton's
\* iteration from r above it
RECURSIVE IntSqrtFrom(_, _)
IntSqrtFrom(n, r) ==
    IF (r + n \div r) \div 2 >= r THEN r ELSE IntSqrtFrom(n, (r + n \div r) \div 2)

\* the largest limb x with (base + x) * x <= rem, counted down from x
RECURSIVE BSqrtDigit(_, _, _)
BSqrtDigit(base, rem, x) ==
    IF BCmp(BMulSmall(BAdd(base, <<x>>), x), rem) <= 0 THEN x
    ELSE BSqrtDigit(base, rem, x - 1)

\* square root by pairs of limbs, from the most significant pair down: rem is
\* the remainder so far with pair k of n brought down; root has a most
\* significant limb of at least Base / 2, and the digit is estimated by dividing
\* half the remainder by root * Base.  The least significant limb of the result
\* says whether a remainder is left.
RECURSIVE BSqrtFrom(_, _, _, _)
BSqrtFrom(n, k, rem, root) ==
    LET emit(x) ==
            BSqrtFrom(n, k - 1,
                      BTrim(<<Limb(n, 2 * k - 3), Limb(n, 2 * k - 2)>>
                            \o BSub(rem, BMulSmall(BAdd(BCons(0, BMulSmall(root, 2)), <<x>>), x))),
                      BCons(x, root))
        est(half) == Min(Base - 1, (Limb(half, Len(root) + 2) * Base
                                    + Limb(half, Len(root) + 1)) \div root[Len(root)])
    IN  IF k = 0 THEN BCons(IF Len(rem) = 0 THEN 0 ELSE 1, root)
        ELSE emit(BSqrtDigit(BCons(0, BMulSmall(root, 2)), rem, est(BShr(rem, 1))))

\* floor(sqrt(n)) * Base + (1 if n is not a square, else 0), for n of an even
\* number of limbs with a most significant pair of at least Base * Base / 4;
\* the first digit is the integer square root of that pair
BSqrt(n) ==
    BSqrtFrom(n, Len(n) \div 2 - 1,
              BTrim(<<Limb(n, Len(n) - 3), Limb(n, Len(n) - 2)>>
                    \o BFromInt(n[Len(n)] * Base + n[Len(n) - 1]
                                - IntSqrtFrom(n[Len(n)] * Base + n[Len(n) - 1], Base)
                                  * IntSqrtFrom(n[Len(n)] * Base + n[Len(n) - 1], Base))),
              <<IntSqrtFrom(n[Len(n)] * Base + n[Len(n) - 1], Base)>>)

\* a binary64 value <<s, m, e>> is s * m * 2^e, with m an odd natural of at
\* most MantBits bits, or zero
MantBits == 53
Zero64 == <<0, <<>>, 0>>

Canon(s, m, e) ==
    IF Len(m) = 0 THEN Zero64
    ELSE <<s, BShr(m, BTrailingZeros(m)), e + BTrailingZeros(m)>>

\* the binary64 nearest to s * n * 2^e, ties to even: the k bits that n has
\* beyond MantBits are dropped, and the rest goes up by one when the first
\* dropped bit is set and either a lower bit or the last kept bit is set
Round(s, n, e) ==
    LET at(k) ==
            Canon(s,
                  BAdd(BShr(n, k),
                       <<IF k > 0 /\ BBit(n, k - 1) = 1
                            /\ (~BLowZero(n, k - 1) \/ BBit(n, k) = 1)
                         THEN 1 ELSE 0>>),
                  e + k)
    IN  at(IF BBitLen(n) > MantBits THEN BBitLen(n) - MantBits ELSE 0)

FromInt(n) == Canon(IF n < 0 THEN -1 ELSE 1, BFromInt(IF n < 0 THEN -n ELSE n), 0)

fmul(a, b) ==
    IF a[1] = 0 \/ b[1] = 0 THEN Zero64
    ELSE Round(a[1] * b[1], BMul(a[2], b[2]), a[3] + b[3])

\* a + b, from the magnitudes x and y brought to the smaller exponent e
fadd(a, b) ==
    LET at(x, y, e) ==
            Round(IF a[1] = b[1] \/ BCmp(x, y) > 0 THEN a[1] ELSE b[1],
                  IF a[1] = b[1] THEN BAdd(x, y)
                  ELSE IF BCmp(x, y) > 0 THEN BSub(x, y)
                  ELSE BSub(y, x),
                  e)
    IN  IF a[1] = 0 THEN b
        ELSE IF b[1] = 0 THEN a
        ELSE at(BShl(a[2], a[3] - Min(a[3], b[3])), BShl(b[2], b[3] - Min(a[3], b[3])),
                Min(a[3], b[3]))

fsub(a, b) == fadd(a, NegC(b))

\* a / b for b # 0: the divisor is shifted to a most significant limb of at
\* least Base / 2, the dividend by MantBits + 3 + BBitLen(b[2]) - Min(BBitLen(a[2]),
\* BBitLen(b[2])) more to give 56 or more quotient bits, and the quotient with
\* its remainder limb is rounded
fdiv(a, b) ==
    IF a[1] = 0 THEN Zero64
    ELSE Round(a[1] * b[1],
               BDiv(BShl(a[2], MantBits + 3 + BBitLen(b[2]) - Min(BBitLen(a[2]), BBitLen(b[2]))
                               + LimbBits - IntBitLen(b[2][Len(b[2])])),
                    BShl(b[2], LimbBits - IntBitLen(b[2][Len(b[2])]))),
               a[3] - (MantBits + 3 + BBitLen(b[2]) - Min(BBitLen(a[2]), BBitLen(b[2])))
               - b[3] - LimbBits)

\* sqrt(a) for a >= 0: the mantissa is shifted to eight limbs, or one bit less
\* for an even exponent, and the root with its remainder limb is rounded
fsqrt(a) ==
    IF a[1] = 0 THEN Zero64
    ELSE Round(1,
               BSqrt(BShl(a[2], 8 * LimbBits - BBitLen(a[2])
                                - ((a[3] - (8 * LimbBits - BBitLen(a[2]))) % 2))),
               (a[3] - (8 * LimbBits - BBitLen(a[2])
                        - ((a[3] - (8 * LimbBits - BBitLen(a[2]))) % 2))) \div 2 - LimbBits)

\* a coordinate is a rational or, where no small rational equals it, a
\* binary64 value
AsDouble(v) == IF Len(v) = 3 THEN v ELSE fdiv(FromInt(v[1]), FromInt(v[2]))

\* npy.pi
pi64 == <<1, <<1443, 21777, 4349, 25>>, -48>>

\* the float next below 1: 1 - 2^-52 = 0.9999999999999998
NearPole == <<1, <<32767, 32767, 32767, 127>>, -52>>

\* npy.arcsin at the ordinates y >= 0 the specifications use: the binary64
\* value nearest to the arc sine of the binary64 value of y
arcsinTable ==
    (F(0) :> Zero64)
    @@ (<<1, 3>> :> <<1, <<2185, 20229, 32710, 86>>, -53>>)
    @@ (<<1, 2>> :> <<1, <<14771, 14381, 676, 67>>, -52>>)
    @@ (F(1) :> <<1, <<1443, 21777, 4349, 25>>, -49>>)
    @@ (NearPole :> <<1, <<1407, 7480, 2029, 201>>, -52>>)

arcsin(y) == IF y[1] < 0 THEN NegC(arcsinTable[NegC(y)]) ELSE arcsinTable[y]

\* "(1-v)*(1+v)", the argument of both square roots of MollweideProj.xy2vec
\* (1.0 is <<1, <<1>>, 0>>, 2.0 is <<1, <<1>>, 1>>, 4.0 is <<1, <<1>>, 2>>)
OneMinusSquare(v) == fmul(fsub(<<1, <<1>>, 0>>, v), fadd(<<1, <<1>>, 0>>, v))

\* "s = npy.sqrt((1-y)*(1+y)); a = npy.arcsin(y); z = 2./pi * (a + y*s)"
\* for the binary64 ordinate y and its arc sine a
Mollweide_z(y, a) ==
    fmul(fdiv(<<1, <<1>>, 1>>, pi64), fadd(a, fmul(y, fsqrt(OneMinusSquare(y)))))

\* "sz = npy.sqrt((1-z)*(1+z))" is NaN when the product is negative; the
\* answer at every ordinate, computed once
Mollweide_szIsNaN ==
    [y \in DOMAIN arcsinTable \cup {NegC(y) : y \in DOMAIN arcsinTable} |-> OneMinusSquare(Mollweide_z(AsDouble(y), arcsin(y)))[1] < 0]

\* "npy.asarray(x)**2/4.+npy.asarray(y)**2 > 1." on binary64 values
OutsideEllipse64(x, y) ==
    fsub(fadd(fdiv(fmul(x, x), <<1, <<1>>, 2>>), fmul(y, y)), <<1, <<1>>, 0>>)[1] > 0

\* the mask of MollweideProj.xy2vec
Mollweide_mask(x, y) ==
    IF Len(x) = 3 \/ Len(y) = 3 THEN OutsideEllipse64(AsDouble(x), AsDouble(y))
    ELSE OutsideEllipse(x, y)

\* ------------------------------------------------------------------------
\* Vector conversions.  A vector is <<vx, vy, vz>>; in the array form each
\* of the three is a sequence.  A component computed through sqrt, arcsin,
\* sin or cos is the symbolic term
\*   <<sign, component, class, flip, x num, x den, y num, y den>>
\* (class 1 Gnomonic, 2 Mollweide), never equal to NaN.
\* ------------------------------------------------------------------------
Sym(comp, cls, flip, x, y) == <<1, comp, cls, flip, x[1], x[2], y[1], y[2]>>

\* the rotation applied to every element of an array-form vector
rotatorArr(rot, v) ==
    LET n == Len(v[1])
        r(k) == rotator(rot, <<v[1][k], v[2][k], v[3][k]>>)
    IN  <<[k \in 1..n |-> r(k)[1]], [k \in 1..n |-> r(k)[2]], [k \in 1..n |-> r(k)[3]]>>

rotatorIArr(rot, v) ==
    LET n == Len(v[1])
        r(k) == rotatorI(rot, <<v[1][k], v[2][k], v[3][k]>>)
    IN  <<[k \in 1..n |-> r(k)[1]], [k \in 1..n |-> r(k)[2]], [k \in 1..n |-> r(k)[3]]>>

\* GnomonicProj.vec2xy.  given: 1 when only vx is given (it holds the three
\* components), 3 when vx, vy, vz are given, 2 when vz is missing
Gnomonic_vec2xy(self, v, given, direct, isArr) ==
    IF direct /\ given = 2 THEN Raised("ValueError")
    ELSE LET vec  == IF direct THEN v
                     ELSE IF isArr THEN rotatorArr(self.rot, v)
                     ELSE rotator(self.rot, v)
             flip == F(self.flip)
             px(a, b, c) == Div(Mul(flip, b), a)
             py(a, b, c) == Div(c, a)
         IN  IF ~isArr
             THEN LET mask == Le(vec[1], F(0))
                  IN  IF mask THEN Returned(<<NaN, NaN>>)
                      ELSE Returned(<<px(vec[1], vec[2], vec[3]),
                                      py(vec[1], vec[2], vec[3])>>)
             ELSE LET mask == [k \in DOMAIN vec[1] |-> Le(vec[1][k], F(0))]
                      w == {k \in DOMAIN mask : mask[k] = FALSE}
                  IN  Returned(<<[k \in DOMAIN vec[1] |->
                                     IF k \in w THEN px(vec[1][k], vec[2][k], vec[3][k])
                                     ELSE NaN],
                                 [k \in DOMAIN vec[1] |->
                                     IF k \in w THEN py(vec[1][k], vec[2][k], vec[3][k])
                                     ELSE NaN]>>)

\* the three components GnomonicProj.xy2vec computes from one plane point
Gnomonic_vecOf(flip, x, y) ==
    IF IsNaN(x) \/ IsNaN(y) THEN <<NaN, NaN, NaN>>
    ELSE <<Sym(1, 1, flip, x, y), Sym(2, 1, flip, x, y), Sym(3, 1, flip, x, y)>>

\* GnomonicProj.xy2vec; x and y are coordinate arguments, or, in the array
\* form, two sequences of floats
Gnomonic_xy2vec(self, x, y, direct, isArr) ==
    IF ~isArr
    THEN IF y[1] = 0 /\ x[1] # 2 THEN Raised("TypeError")
         ELSE LET px == x[2]
                  py == IF y[1] = 0 THEN x[3] ELSE y[2]
                  vec == Gnomonic_vecOf(self.flip, px, py)
              IN  Returned(IF direct THEN vec ELSE rotatorI(self.rot, vec))
    ELSE LET vec == <<[k \in DOMAIN x |-> Gnomonic_vecOf(self.flip, x[k], y[k])[1]],
                      [k \in DOMAIN x |-> Gnomonic_vecOf(self.flip, x[k], y[k])[2]],
                      [k \in DOMAIN x |-> Gnomonic_vecOf(self.flip, x[k], y[k])[3]]>>
         IN  Returned(IF direct THEN vec ELSE rotatorIArr(self.rot, vec))

\* the components MollweideProj.xy2vec computes for a point it does not mask:
\* s = sqrt((1-y)(1+y)), a = arcsin(y), z = 2/pi (a + y s), phi, sz, vec;
\* npy.sqrt and npy.arcsin are NaN outside their domains
Mollweide_vecOf(flip, x, y) ==
    IF IsNaN(y) \/ (Len(y) = 2 /\ (~(Le(F(-1), y) /\ Le(y, F(1)))
                                   \/ ~Le(F(0), Mul(Sub(F(1), y), Add(F(1), y)))))
    THEN <<NaN, NaN, NaN>>
    ELSE IF IsNaN(x) \/ Mollweide_szIsNaN[y]
    THEN <<NaN, NaN, Sym(3, 2, flip, x, y)>>
    ELSE <<Sym(1, 2, flip, x, y), Sym(2, 2, flip, x, y), Sym(3, 2, flip, x, y)>>

\* the mask and the components of one plane point p = <<x, y>>: the code
\* computes both for every point
Mollweide_point(flip, p) ==
    <<Mollweide_mask(p[1], p[2]), Mollweide_vecOf(flip, p[1], p[2])>>

\* MollweideProj.xy2vec on the points <<x, y>>: one for two scalars or a pair,
\* one per element for two arrays
Mollweide_xy2vec(self, x, y, direct, isArr) ==
    LET \* "if not direct: return self.rotator.I(vec) else: return vec"
        out(vec) == IF direct THEN vec ELSE rotatorI(self.rot, vec)
        outArr(vec) == IF direct THEN vec ELSE rotatorIArr(self.rot, vec)
        columns(vs) == <<[k \in DOMAIN vs |-> vs[k][1]], [k \in DOMAIN vs |-> vs[k][2]],
                         [k \in DOMAIN vs |-> vs[k][3]]>>
        \* the elements outside the mask are assigned, the others stay NaN
        assigned(e) == IF e[1] THEN <<NaN, NaN, NaN>> ELSE e[2]
        result(es) ==
            IF isArr THEN Returned(outArr(columns([k \in DOMAIN es |-> assigned(es[k])])))
            ELSE IF es[1][1] THEN Returned(<<NaN, NaN, NaN>>)
            ELSE Returned(out(es[1][2]))
        points == IF isArr THEN [k \in DOMAIN x |-> <<x[k], y[k]>>]
                  ELSE <<<<x[2], IF y[1] = 0 THEN x[3] ELSE y[2]>>>>
    IN  IF ~isArr /\ y[1] = 0 /\ x[1] # 2 THEN Raised("TypeError")
        ELSE result([k \in DOMAIN points |-> Mollweide_point(self.flip, points[k])])

\* MollweideProj.vec2xy on a scalar vector: "X,Y = MollweideProj.__molldata"
\* raises ValueError unless the table holds exactly two entries; the result of
\* the interpolation is kept symbolic
Mollweide_vec2xy(self, md, v, direct) ==
    LET vec == IF direct THEN v ELSE rotator(self.rot, v)
    IN  IF Len(md) # 2 THEN Raised("ValueError")
        ELSE Returned(<<<<1, 1, 3, self.flip, vec[1][1], vec[1][2], vec[2][1],
                          vec[2][2], vec[3][1], vec[3][2]>>,
                        <<1, 2, 3, self.flip, vec[1][1], vec[1][2], vec[2][1],
                          vec[2][2], vec[3][1], vec[3][2]>>>>)

\* ------------------------------------------------------------------------
\* Dispatch on the class of the object
\* ------------------------------------------------------------------------
\* a variant of ij2xy whose base-class method raises NotImplementedError
ij2xy_abstract(self, i, j) ==
    IF self.cls = "GnomonicProj" THEN Gnomonic_ij2xy(self, i, j)
    ELSE IF self.cls = "MollweideProj" THEN Mollweide_ij2xy(self, i, j)
    ELSE Raised("NotImplementedError")

\* a variant of ij2xy in which a missing i silently defaults to row 0
ij2xy_defaulting(self, i, j) ==
    LET ii == IF i = INone /\ j # INone THEN IInt(0) ELSE i
    IN  IF self.cls = "GnomonicProj" THEN Gnomonic_ij2xy(self, ii, j)
        ELSE IF self.cls = "MollweideProj" THEN Mollweide_ij2xy(self, ii, j)
        ELSE ReturnedNone

ij2xy(self, i, j) ==
    IF self.cls = "GnomonicProj" THEN Gnomonic_ij2xy(self, i, j)
    ELSE IF self.cls = "MollweideProj" THEN Mollweide_ij2xy(self, i, j)
    ELSE ReturnedNone

xy2ij(self, x, y, ub) ==
    IF self.cls = "GnomonicProj" THEN Gnomonic_xy2ij(self, x, y, ub)
    ELSE IF self.cls = "MollweideProj" THEN Mollweide_xy2ij(self, x, y, ub)
    ELSE ReturnedNone

xy2vec(self, x, y, direct, isArr) ==
    IF self.cls = "GnomonicProj" THEN Gnomonic_xy2vec(self, x, y, direct, isArr)
    ELSE IF self.cls = "MollweideProj" THEN Mollweide_xy2vec(self, x, y, direct, isArr)
    ELSE ReturnedNone

vec2xy(self, md, v, given, direct, isArr) ==
    IF self.cls = "GnomonicProj" THEN Gnomonic_vec2xy(self, v, given, direct, isArr)
    ELSE IF self.cls = "MollweideProj" THEN Mollweide_vec2xy(self, md, v, direct)
    ELSE ReturnedNone

\* ------------------------------------------------------------------------
\* SphericalProj.projmap
\* ------------------------------------------------------------------------
\* the caller's vec2pix_func: f < npix is the constant function f, f = npix a
\* function of the plane abscissa the vector's first component came from
vec2pix_func(f, npix, vx, vy, vz) ==
    IF f < npix THEN f
    ELSE IF Len(vx) = 2 THEN 0
    ELSE (Sign(vx[5]) + 1) % npix

\* the positions of a 2-D array in row-major order, as <<row, column>>
RowMajor(g) ==
    IF Len(g) = 0 THEN <<>>
    ELSE [k \in 1..(Len(g) * Len(g[1])) |->
             <<((k - 1) \div Len(g[1])) + 1, ((k - 1) % Len(g[1])) + 1>>]

\* the closing statements of projmap for the grid r and its selected positions
\* w: "vec = self.xy2vec(x[w],y[w])", "vec = (R.Rotator(rot=rot)).I(vec)",
\* "pix=vec2pix_func(vec[0],vec[1],vec[2])", then the image, -infinity where
\* a position was not selected
projmap_gather(self, map, f, rot, r, w) ==
    LET pixel(vec, k) == vec2pix_func(f, Len(map), vec[1][k], vec[2][k], vec[3][k])
        image(vec) ==
            Returned([a \in DOMAIN r.val.x |-> [b \in DOMAIN r.val.x[a] |->
                        IF \E k \in 1..Len(w) : w[k] = <<a, b>>
                        THEN map[pixel(vec, CHOOSE k \in 1..Len(w) : w[k] = <<a, b>>) + 1]
                        ELSE NegInf]])
    IN  image(rotatorIArr(rot,
                  xy2vec(self, [k \in 1..Len(w) |-> r.val.x[w[k][1]][w[k][2]]],
                         [k \in 1..Len(w) |-> r.val.y[w[k][1]][w[k][2]]], FALSE, TRUE).val))

\* projmap on the outcome r of "x,y = self.ij2xy()": "w=mask.ravel() == False"
\* for a masked grid, "w = slice(None)" otherwise (and always, when useMask
\* is FALSE)
projmap_grid(self, map, f, rot, r, useMask) ==
    LET sel(p) == IF useMask /\ r.val.masked THEN r.val.mask[p[1]][p[2]] = FALSE
                  ELSE TRUE
    IN  IF r.kind = "raise" THEN r
        ELSE IF r.kind = "none" THEN Raised("TypeError")
        ELSE projmap_gather(self, map, f, rot, r, SelectSeq(RowMajor(r.val.x), sel))

\* variant of projmap that ignores the mask of the grid (w = slice(None) always)
projmap_unmasked(self, map, f, rot) ==
    projmap_grid(self, map, f, rot, ij2xy(self, INone, INone), FALSE)

projmap(self, map, f, rot) ==
    projmap_grid(self, map, f, rot, ij2xy(self, INone, INone), TRUE)

\* ------------------------------------------------------------------------
\* Extent and field of view
\* ------------------------------------------------------------------------
Gnomonic_get_extent(self) ==
    LET corners(lt, rb) == Returned(<<lt[1], rb[1], rb[2], lt[2]>>)
    IN  IF self.arrayinfo.isNone THEN Raised("TypeError")
        ELSE corners(Gnomonic_ij2xy(self, IInt(0), IInt(0)).val,
                     Gnomonic_ij2xy(self, IInt(self.arrayinfo.xsize - 1),
                                    IInt(self.arrayinfo.ysize - 1)).val)

get_extent(self) ==
    IF self.cls = "GnomonicProj" THEN Gnomonic_get_extent(self)
    ELSE IF self.cls = "MollweideProj" THEN Returned(<<F(-2), F(2), F(-1), F(1)>>)
    ELSE ReturnedNone

\* GnomonicProj.get_fov: 2 arccos(vx) of the corner, kept symbolic
Gnomonic_get_fov(self) ==
    LET of(c) == IF c.kind = "raise" THEN c
                 ELSE Returned(<<2, Gnomonic_xy2vec(self, XPair(c.val[1], c.val[2]), XNone,
                                                    TRUE, FALSE).val[1]>>)
    IN  of(Gnomonic_ij2xy(self, IInt(0), IInt(0)))

get_fov(self) ==
    IF self.cls = "GnomonicProj" THEN Gnomonic_get_fov(self)
    ELSE Returned(Mul(F(2), pi))

\* ------------------------------------------------------------------------
\* R.dir2vec for directions in quarter turns: theta in {0,1,2}, phi in 0..3
\* ------------------------------------------------------------------------
dir2vec(theta, phi) ==
    LET sint == IF theta = 1 THEN 1 ELSE 0
        cost == IF theta = 0 THEN 1 ELSE IF theta = 2 THEN -1 ELSE 0
        cosp == IF phi = 0 THEN 1 ELSE IF phi = 2 THEN -1 ELSE 0
        sinp == IF phi = 1 THEN 1 ELSE IF phi = 3 THEN -1 ELSE 0
    IN  <<F(sint * cosp), F(sint * sinp), F(cost)>>

\* ang2xy of the two concrete classes: vec2xy of dir2vec
ang2xy(self, md, theta, phi, direct) ==
    IF self.cls = "" \/ self.cls = "SphericalProj" THEN ReturnedNone
    ELSE vec2xy(self, md, dir2vec(theta, phi), 1, direct, FALSE)

\* xy2ang of the two concrete classes: R.vec2dir of xy2vec, kept as the vector
xy2ang(self, x, y, direct) ==
    IF self.cls = "" \/ self.cls = "SphericalProj" THEN ReturnedNone
    ELSE xy2vec(self, x, y, direct, FALSE)

\* ------------------------------------------------------------------------
\* Input sets
\* ------------------------------------------------------------------------
FlipConvs == {"None", "astro", "geo", "east"}

GnomonicSizes == {None} \cup 2..MaxGnomonicSize

MollweideSizes == {None} \cup 1..MaxMollweideSize

Resos == {NaN, F(90)}

IdxArgs ==
    {<<INone, INone>>, <<INone, IInt(1)>>, <<IInt(1), INone>>,
     <<IPair(0, 0), INone>>, <<IPair(1, 2), INone>>, <<IInt(199), IInt(199)>>}
    \cup {<<IInt(i), IInt(j)>> : i \in 0..((MaxMollweideSize \div 2) - 1),
                                     j \in 0..(MaxMollweideSize - 1)}

PlaneArgs ==
    {<<XNum(p[1]), XNum(p[2])>> :
        p \in {<<F(0), F(0)>>, <<F(2), F(0)>>, <<F(-2), F(0)>>, <<F(0), F(1)>>,
              <<F(1), <<1, 2>>>>, <<F(3), F(0)>>, <<F(1), F(1)>>, <<F(0), F(2)>>,
              <<F(0), F(-1)>>}}
    \cup {<<XPair(F(1), <<1, 2>>), XNone>>, <<XNum(F(1)), XNone>>,
          <<XNum(NaN), XNum(NaN)>>}

PlaneArrays ==
    {<<<<F(0), F(3)>>, <<F(0), F(0)>>>>, <<<<F(2), F(1)>>, <<F(0), F(1)>>>>,
     <<<<F(0), F(0)>>, <<F(1), F(2)>>>>}

\* plane points for xy2vec and xy2ang: those above, and the points next to
\* the two poles of the Mollweide ellipse
VecPlaneArgs ==
    PlaneArgs \cup {<<XNum(F(0)), XNum(NearPole)>>, <<XNum(F(0)), XNum(NegC(NearPole))>>}

VecPlaneArrays == PlaneArrays \cup {<<<<F(0), F(0)>>, <<F(1), NearPole>>>>}

Vecs ==
    {<<F(1), F(0), F(0)>>, <<F(0), F(1), F(0)>>, <<F(-1), F(0), F(0)>>,
     <<<<3, 5>>, <<4, 5>>, F(0)>>, <<<<-3, 5>>, <<4, 5>>, F(0)>>,
     <<F(0), F(0), F(1)>>}

VecArrays ==
    {<<<<v[1], u[1]>>, <<v[2], u[2]>>, <<v[3], u[3]>>>> :
        v \in {<<F(1), F(0), F(0)>>, <<F(0), F(1), F(0)>>},
        u \in {<<<<3, 5>>, <<4, 5>>, F(0)>>, <<<<-3, 5>>, <<4, 5>>, F(0)>>}}

Dirs == {<<1, 0>>, <<1, 1>>, <<1, 2>>, <<0, 0>>}

\* source maps: the constant ones, and one whose first pixel differs
Maps ==
    {[k \in 1..NPix |-> c] : c \in {F(7), F(9)}}
    \cup {[k \in 1..NPix |-> IF k = 1 THEN F(7) ELSE F(9)]}

\* vec2pix functions: f < NPix always returns pixel f, NPix depends on the vector
PixFuncs == {0, NPix - 1, NPix}

\* one or two representative inputs of each kind, for the runs that follow
\* an object through constructions and calls
FewPlaneArgs == {<<XNum(F(0)), XNum(F(0))>>, <<XNum(F(3)), XNum(F(0))>>}

\* ------------------------------------------------------------------------
\* State
\* ------------------------------------------------------------------------
Threads == 1..NThreads

VARIABLES
    molldata,   \* the class attribute MollweideProj.__molldata
    builds,     \* how many times the build branch of __initialise_data ran
    proj,       \* the projection object the caller holds (NoProj: none yet)
    call,       \* the last call made: [op, args, chain]
    ret,        \* what the last call did
    threads     \* per thread: where it is in "p = MollweideProj(..); p.vec2xy(v)"

vars == <<molldata, builds, proj, call, ret, threads>>

NoCall == [op |-> "", args |-> <<>>, chain |-> <<>>]

Call(op, args) == [op |-> op, args |-> args, chain |-> <<>>]

IdleThread == [pc |-> "start", sawEmpty |-> FALSE, hasXY |-> FALSE,
               self |-> NoProj, ret |-> ReturnedNone]

Init ==
    /\ molldata = <<>>
    /\ builds = 0
    /\ proj = NoProj
    /\ call = NoCall
    /\ ret = ReturnedNone
    /\ threads = [t \in Threads |-> IdleThread]

\* ------------------------------------------------------------------------
\* Constructions (single thread)
\* ------------------------------------------------------------------------
\* the outcome of a constructor whose base __init__ produced object p
Constructed(p) ==
    /\ proj' = IF p = NoProj THEN proj ELSE p
    /\ ret' = IF p = NoProj THEN Raised("ValueError") ELSE ReturnedNone

New_SphericalProj ==
    \E flipconv \in FlipConvs, xsize \in {None, 4} :
        /\ Constructed(SphericalProj_init("SphericalProj", 0, flipconv,
                                          set_proj_plane_info(xsize, None, NaN)))
        /\ call' = Call("SphericalProj", <<0, flipconv, xsize>>)
        /\ UNCHANGED <<molldata, builds, threads>>

New_GnomonicProj ==
    \E rot \in Rots, flipconv \in FlipConvs, xsize \in {None, 3},
       ysize \in {None, 2}, reso \in Resos :
        /\ Constructed(SphericalProj_init("GnomonicProj", rot, flipconv,
                          Gnomonic_set_proj_plane_info(xsize, ysize, reso)))
        /\ call' = Call("GnomonicProj", <<rot, flipconv, xsize, ysize, reso>>)
        /\ UNCHANGED <<molldata, builds, threads>>

New_MollweideProj ==
    \E rot \in Rots, flipconv \in FlipConvs, xsize \in {None, 6} :
        /\ molldata' = initialise_data(molldata)
        /\ builds' = IF initialise_check(molldata) THEN builds + 1 ELSE builds
        /\ Constructed(SphericalProj_init("MollweideProj", rot, flipconv,
                          Mollweide_set_proj_plane_info(xsize)))
        /\ call' = Call("MollweideProj", <<rot, flipconv, xsize>>)
        /\ UNCHANGED threads

\* ------------------------------------------------------------------------
\* Calls on the object (single thread), with arguments drawn from given sets
\* ------------------------------------------------------------------------
\* the full grid of a large plane is not enumerated
SmallGrid ==
    \/ proj.arrayinfo.isNone
    \/ proj.cls = "SphericalProj"
    \/ proj.cls = "GnomonicProj"
         /\ proj.arrayinfo.xsize * proj.arrayinfo.ysize <= MaxCells
    \/ proj.cls = "MollweideProj"
         /\ proj.arrayinfo.xsize * (proj.arrayinfo.xsize \div 2) <= MaxCells

Does(c, r) ==
    /\ call' = c
    /\ ret' = r
    /\ UNCHANGED <<molldata, builds, proj, threads>>

Call_ij2xy(Args) ==
    \E a \in Args :
        /\ proj # NoProj
        /\ a = <<INone, INone>> => SmallGrid
        /\ Does(Call("ij2xy", a), ij2xy(proj, a[1], a[2]))

Call_xy2ij(Args) ==
    \E a \in Args, ub \in NanCastOutcomes :
        /\ proj # NoProj
        /\ Does(Call("xy2ij", a), xy2ij(proj, a[1], a[2], ub))

\* xy2ij(ij2xy(i, j)): the pair ij2xy just returned is passed on
Call_xy2ij_of_ij2xy ==
    \E ub \in NanCastOutcomes :
        /\ proj # NoProj
        /\ call.op = "ij2xy" /\ ret.kind = "value"
        /\ call.args[1][1] = 1 /\ call.args[2][1] = 1
        /\ Does([op |-> "xy2ij",
                 args |-> <<XPair(ret.val[1], ret.val[2]), XNone>>,
                 chain |-> <<call.args[1][2], call.args[2][2]>>],
                xy2ij(proj, XPair(ret.val[1], ret.val[2]), XNone, ub))

Call_vec2xy(Vs) ==
    \E v \in Vs, given \in {1, 2, 3}, direct \in BOOLEAN :
        /\ proj # NoProj
        /\ given = 2 => direct
        /\ Does(Call("vec2xy", <<v, given, direct, FALSE>>),
                vec2xy(proj, molldata, v, given, direct, FALSE))

Call_vec2xy_array(Vs) ==
    \E v \in Vs, direct \in BOOLEAN :
        /\ proj.cls \in {"SphericalProj", "GnomonicProj"}
        /\ Does(Call("vec2xy", <<v, 3, direct, TRUE>>),
                vec2xy(proj, molldata, v, 3, direct, TRUE))

Call_xy2vec(Args) ==
    \E a \in Args, direct \in BOOLEAN :
        /\ proj # NoProj
        /\ Does(Call("xy2vec", <<a[1], a[2], direct, FALSE>>),
                xy2vec(proj, a[1], a[2], direct, FALSE))

Call_xy2vec_array(Args) ==
    \E a \in Args, direct \in BOOLEAN :
        /\ proj # NoProj
        /\ Does(Call("xy2vec", <<a[1], a[2], direct, TRUE>>),
                xy2vec(proj, a[1], a[2], direct, TRUE))

Call_ang2xy(Ds) ==
    \E d \in Ds, direct \in BOOLEAN :
        /\ proj # NoProj
        /\ Does(Call("ang2xy", <<d[1], d[2], direct>>),
                ang2xy(proj, molldata, d[1], d[2], direct))

Call_xy2ang(Args) ==
    \E a \in Args, direct \in BOOLEAN :
        /\ proj # NoProj
        /\ Does(Call("xy2ang", <<a[1], a[2], direct>>),
                xy2ang(proj, a[1], a[2], direct))

\* SphericalProj.set_proj_plane_info(p) called on the object without keywords:
\* "allNone" stays True and the array-info becomes None
Call_base_set_proj_plane_info ==
    /\ proj # NoProj
    /\ proj' = [proj EXCEPT !.arrayinfo = set_proj_plane_info(None, None, NaN)]
    /\ call' = Call("set_proj_plane_info", <<>>)
    /\ ret' = ReturnedNone
    /\ UNCHANGED <<molldata, builds, threads>>

Call_get_extent ==
    /\ proj # NoProj
    /\ Does(Call("get_extent", <<>>), get_extent(proj))

Call_get_fov ==
    /\ proj # NoProj
    /\ Does(Call("get_fov", <<>>), get_fov(proj))

Call_projmap(Ms) ==
    \E map \in Ms, f \in PixFuncs, rot \in Rots :
        /\ proj # NoProj
        /\ SmallGrid
        /\ Does(Call("projmap", <<map, f, rot>>), projmap(proj, map, f, rot))

\* ------------------------------------------------------------------------
\* Spec: one thread constructs projections and calls their methods
\* ------------------------------------------------------------------------
Next ==
    \/ New_SphericalProj
    \/ New_GnomonicProj
    \/ New_MollweideProj
    \/ Call_ij2xy({<<INone, INone>>, <<IInt(0), IInt(1)>>})
    \/ Call_xy2ij(FewPlaneArgs)
    \/ Call_xy2ij_of_ij2xy
    \/ Call_vec2xy({<<F(1), F(0), F(0)>>, <<F(-1), F(0), F(0)>>})
    \/ Call_vec2xy_array({<<<<F(1), F(-1)>>, <<F(0), F(0)>>, <<F(0), F(0)>>>>})
    \/ Call_xy2vec(FewPlaneArgs)
    \/ Call_xy2vec_array({<<<<F(0), F(3)>>, <<F(0), F(0)>>>>})
    \/ Call_ang2xy({<<1, 0>>})
    \/ Call_xy2ang(FewPlaneArgs)
    \/ Call_get_extent
    \/ Call_get_fov
    \/ Call_projmap({[k \in 1..NPix |-> F(7)]})

Spec == Init /\ [][Next]_vars

\* ------------------------------------------------------------------------
\* The objects the constructors produce, for the runs that start from a
\* constructed object and apply conversions to it
\* ------------------------------------------------------------------------
Objects(Rs, FCs, GSizes, GResos, MSizes) ==
    ({SphericalProj_init("SphericalProj", 0, fc, set_proj_plane_info(xs, None, NaN)) :
         fc \in FCs, xs \in {None, 4}}
     \cup {SphericalProj_init("GnomonicProj", rot, fc,
                              Gnomonic_set_proj_plane_info(xs, ys, reso)) :
              rot \in Rs, fc \in FCs, xs \in GSizes, ys \in GSizes, reso \in GResos}
     \cup {SphericalProj_init("MollweideProj", rot, fc,
                              Mollweide_set_proj_plane_info(xs)) :
              rot \in Rs, fc \in FCs, xs \in MSizes})
    \ {NoProj}

InitObject(Objs) ==
    /\ proj \in Objs
    /\ molldata = IF proj.cls = "MollweideProj" THEN initialise_data(<<>>) ELSE <<>>
    /\ builds = IF proj.cls = "MollweideProj" THEN 1 ELSE 0
    /\ call = NoCall
    /\ ret = ReturnedNone
    /\ threads = [t \in Threads |-> IdleThread]

\* index conversions
NextIndex ==
    \/ Call_ij2xy(IdxArgs)
    \/ Call_xy2ij(PlaneArgs)
    \/ Call_xy2ij_of_ij2xy
    \/ Call_get_extent
    \/ Call_base_set_proj_plane_info

SpecIndex ==
    InitObject(Objects({0}, {"None"}, GnomonicSizes, Resos, MollweideSizes))
    /\ [][NextIndex]_vars

\* vector and direction conversions
NextVector ==
    \/ Call_vec2xy(Vecs)
    \/ Call_vec2xy_array(VecArrays)
    \/ Call_xy2vec(VecPlaneArgs)
    \/ Call_xy2vec_array(VecPlaneArrays)
    \/ Call_ang2xy(Dirs)
    \/ Call_xy2ang(VecPlaneArgs)
    \/ Call_get_fov

SpecVector ==
    InitObject(Objects(Rots, FlipConvs, {None}, {NaN}, {None, 6}))
    /\ [][NextVector]_vars

\* map resampling
NextProjmap ==
    \/ Call_projmap(Maps)

SpecProjmap ==
    InitObject(Objects({0}, {"astro", "geo"}, GnomonicSizes, {NaN}, MollweideSizes))
    /\ [][NextProjmap]_vars

\* ------------------------------------------------------------------------
\* SpecConcurrent: every thread runs "p = MollweideProj(..); p.vec2xy(v)";
\* a thread switch can fall between any two statements of __initialise_data
\* ------------------------------------------------------------------------
ThreadStep(t, th) ==
    /\ threads' = [threads EXCEPT ![t] = th]
    /\ UNCHANGED <<proj, call, ret>>

\* if len(MollweideProj.__molldata) == 0:
T_check(t) ==
    /\ threads[t].pc = "start"
    /\ ThreadStep(t, [threads[t] EXCEPT
                          !.sawEmpty = initialise_check(molldata),
                          !.pc = IF initialise_check(molldata) THEN "build" ELSE "init"])
    /\ UNCHANGED <<molldata, builds>>

\* X = ...; Y = ...; X = concatenate; Y = concatenate (thread-local)
T_build(t) ==
    /\ threads[t].pc = "build"
    /\ builds' = builds + 1
    /\ ThreadStep(t, [threads[t] EXCEPT !.hasXY = TRUE, !.pc = "appendX"])
    /\ UNCHANGED molldata

\* MollweideProj.__molldata.append( X )
T_appendX(t) ==
    /\ threads[t].pc = "appendX"
    /\ molldata' = molldata_append(molldata, molldataX)
    /\ ThreadStep(t, [threads[t] EXCEPT !.pc = "appendY"])
    /\ UNCHANGED builds

\* MollweideProj.__molldata.append( Y )
T_appendY(t) ==
    /\ threads[t].pc = "appendY"
    /\ molldata' = molldata_append(molldata, molldataY)
    /\ ThreadStep(t, [threads[t] EXCEPT !.pc = "init"])
    /\ UNCHANGED builds

\* super(MollweideProj,self).__init__(...)
T_init(t) ==
    \E flipconv \in {"None", "east"} :
        LET p == SphericalProj_init("MollweideProj", 0, flipconv,
                                    Mollweide_set_proj_plane_info(None))
        IN  /\ threads[t].pc = "init"
            /\ ThreadStep(t, [threads[t] EXCEPT
                    !.self = p,
                    !.ret = IF p = NoProj THEN Raised("ValueError") ELSE ReturnedNone,
                    !.pc = IF p = NoProj THEN "failed" ELSE "made"])
            /\ UNCHANGED <<molldata, builds>>

\* p.vec2xy(v, direct=True)
T_vec2xy(t) ==
    /\ threads[t].pc = "made"
    /\ ThreadStep(t, [threads[t] EXCEPT
            !.ret = Mollweide_vec2xy(threads[t].self, molldata,
                                     <<F(1), F(0), F(0)>>, TRUE),
            !.pc = "done"])
    /\ UNCHANGED <<molldata, builds>>

NextConcurrent ==
    \E t \in Threads :
        \/ T_check(t)
        \/ T_build(t)
        \/ T_appendX(t)
        \/ T_appendY(t)
        \/ T_init(t)
        \/ T_vec2xy(t)

SpecConcurrent == Init /\ [][NextConcurrent]_vars

\* ========================================================================
\* Properties
\* ========================================================================
Concrete(p) == p.cls \in {"GnomonicProj", "MollweideProj"}

\* whether ij2xy() marks grid position (a, b) valid
GridValid(g, a, b) == ~g.masked \/ g.mask[a][b] = FALSE

\* the pixel value the position (a, b) of grid g should show
GatherAt(p, g, map, f, rot, a, b) ==
    LET v == rotatorI(rot, xy2vec(p, XNum(g.x[a][b]), XNum(g.y[a][b]),
                                  FALSE, FALSE).val)
    IN  map[vec2pix_func(f, Len(map), v[1], v[2], v[3]) + 1]

\* C1: for a Gnomonic or Mollweide projection with array-info set, projmap
\* returns an image of the shape of the ij2xy() grid in which every position
\* the grid marks valid holds map[vec2pix(rotated xy2vec of the position)] and
\* every masked position holds -infinity; for a constant map every valid
\* pixel is that constant.
C1_ProjmapGathersValid ==
    (call.op = "projmap" /\ Concrete(proj) /\ ~proj.arrayinfo.isNone) =>
        LET g   == ij2xy(proj, INone, INone).val
            map == call.args[1]
            f   == call.args[2]
            rot == call.args[3]
        IN  /\ ret.kind = "value"
            /\ DOMAIN ret.val = DOMAIN g.x
            /\ \A a \in DOMAIN g.x :
                 /\ DOMAIN ret.val[a] = DOMAIN g.x[a]
                 /\ \A b \in DOMAIN g.x[a] :
                      /\ GridValid(g, a, b) =>
                            ret.val[a][b] = GatherAt(proj, g, map, f, rot, a, b)
                      /\ ~GridValid(g, a, b) => ret.val[a][b] = NegInf
                      /\ (GridValid(g, a, b) /\ \A k \in DOMAIN map : map[k] = map[1])
                            => ret.val[a][b] = map[1]

\* C1 witness: a Mollweide image with masked and valid positions, rendered
\* from a non-constant map through a position-dependent vec2pix
C1_Witness ==
    /\ call.op = "projmap" /\ proj.cls = "MollweideProj" /\ ret.kind = "value"
    /\ call.args[1][1] # call.args[1][2]
    /\ call.args[2] = NPix
    /\ \E a \in DOMAIN ret.val : \E b \in DOMAIN ret.val[a] : ret.val[a][b] = NegInf
    /\ \E a \in DOMAIN ret.val : \E b \in DOMAIN ret.val[a] : ret.val[a][b] = F(7)
    /\ \E a \in DOMAIN ret.val : \E b \in DOMAIN ret.val[a] : ret.val[a][b] = F(9)

\* (i, j) lies within the discretized plane array of p: row i, column j
InBounds(p, i, j) ==
    /\ ~p.arrayinfo.isNone
    /\ 0 <= i /\ 0 <= j
    /\ j < p.arrayinfo.xsize
    /\ i < (IF p.cls = "GnomonicProj" THEN p.arrayinfo.ysize ELSE Mollweide_ysize(p))

\* the last call was xy2ij(ij2xy(i, j)) for an (i, j) within the array
RoundTripCall ==
    /\ call.op = "xy2ij" /\ call.chain # <<>>
    /\ Concrete(proj)
    /\ InBounds(proj, call.chain[1], call.chain[2])

\* C2 as stated: for GnomonicProj and MollweideProj, xy2ij(ij2xy(i,j)) = (i,j)
\* for every integer pair (i,j) within the array.
C2_RoundTripEveryIndex ==
    RoundTripCall =>
        (ret.kind = "value" /\ ret.val = <<F(call.chain[1]), F(call.chain[2])>>)

\* C2 amended: xy2ij(ij2xy(i,j)) = (i,j) for every (i,j) within the array of
\* a GnomonicProj, and for every (i,j) within the array of a MollweideProj for
\* which ij2xy(i,j) returns two non-NaN coordinates (the position is not
\* masked as outside the ellipse).
C2_RoundTripUnmasked ==
    (RoundTripCall /\ ~IsNaN(call.args[1][2]) /\ ~IsNaN(call.args[1][3])) =>
        (ret.kind = "value" /\ ret.val = <<F(call.chain[1]), F(call.chain[2])>>)

\* C2 witness: an unmasked position off the first row of a Mollweide array
\* went through ij2xy and xy2ij and came back
C2_Witness ==
    /\ RoundTripCall /\ proj.cls = "MollweideProj"
    /\ ~IsNaN(call.args[1][2]) /\ ~IsNaN(call.args[1][3])
    /\ call.chain[1] >= 1 /\ call.chain[2] >= 1
    /\ ret.val = <<F(call.chain[1]), F(call.chain[2])>>

\* the vector the projection itself sees: the argument, rotated unless direct
FrameVec(p, v, direct, isArr) ==
    IF direct THEN v ELSE IF isArr THEN rotatorArr(p.rot, v) ELSE rotator(p.rot, v)

\* the last call was GnomonicProj.vec2xy on three components
GnomonicVec2xyCall ==
    call.op = "vec2xy" /\ proj.cls = "GnomonicProj" /\ call.args[2] # 2

\* the last call was MollweideProj.xy2vec on two coordinates, none of them NaN
MollweideXy2vecCall ==
    /\ call.op = "xy2vec" /\ proj.cls = "MollweideProj"
    /\ IF call.args[4]
       THEN \A k \in DOMAIN call.args[1] :
                ~IsNaN(call.args[1][k]) /\ ~IsNaN(call.args[2][k])
       ELSE /\ call.args[1][1] = 1 /\ call.args[2][1] = 1
            /\ ~IsNaN(call.args[1][2]) /\ ~IsNaN(call.args[2][2])

\* C8 as stated: domain invalidity is a value, never an error.
\* GnomonicProj.vec2xy returns NaN for both plane coordinates exactly for the
\* vectors whose first component in the projection frame is <= 0, and
\* MollweideProj.xy2vec returns NaN for all three components exactly for the
\* plane points with x^2/4 + y^2 > 1; every other element gets a result
\* without NaN.
C8_InvalidDomainIsNaNOnly ==
    /\ GnomonicVec2xyCall =>
          LET vec == FrameVec(proj, call.args[1], call.args[3], call.args[4])
          IN  /\ ret.kind = "value"
              /\ IF call.args[4]
                 THEN \A k \in DOMAIN vec[1] :
                          IF Le(vec[1][k], F(0))
                          THEN IsNaN(ret.val[1][k]) /\ IsNaN(ret.val[2][k])
                          ELSE ~IsNaN(ret.val[1][k]) /\ ~IsNaN(ret.val[2][k])
                 ELSE IF Le(vec[1], F(0))
                      THEN ret.val = <<NaN, NaN>>
                      ELSE ~IsNaN(ret.val[1]) /\ ~IsNaN(ret.val[2])
    /\ MollweideXy2vecCall =>
          /\ ret.kind = "value"
          /\ IF call.args[4]
             THEN \A k \in DOMAIN call.args[1] :
                      IF Mollweide_mask(call.args[1][k], call.args[2][k])
                      THEN \A n \in 1..3 : IsNaN(ret.val[n][k])
                      ELSE \A n \in 1..3 : ~IsNaN(ret.val[n][k])
             ELSE IF Mollweide_mask(call.args[1][2], call.args[2][2])
                  THEN ret.val = <<NaN, NaN, NaN>>
                  ELSE \A n \in 1..3 : ~IsNaN(ret.val[n])

\* the three constructors
Constructors == {"SphericalProj", "GnomonicProj", "MollweideProj"}

\* the table is empty and was never built, or was built once and holds X, Y
C3_TableInv ==
    \/ builds = 0 /\ molldata = <<>>
    \/ /\ builds = 1
       /\ Len(molldata) = 2
       /\ Len(molldata[1]) = Len(molldata[2])
       /\ molldata = <<molldataX, molldataY>>

\* only a MollweideProj construction that finds the table empty changes it
C3_TableStep ==
    (molldata # <<>> \/ call'.op # "MollweideProj") =>
        (molldata' = molldata /\ builds' = builds)

\* C3: in a single-threaded run the shared table is built exactly once, by
\* the first MollweideProj construction; every later construction finds it
\* non-empty and leaves it unchanged; once built it holds exactly two
\* sequences (X, Y) of equal length; no conversion operation modifies it.
C3_TableBuiltOnce == []C3_TableInv /\ [][C3_TableStep]_vars

\* C3 witness: a MollweideProj construction ran (and failed in the base
\* __init__) while a MollweideProj already existed, the table built once
C3_Witness ==
    /\ call.op = "MollweideProj" /\ ret.kind = "raise"
    /\ proj.cls = "MollweideProj"
    /\ builds = 1 /\ Len(molldata) = 2

\* X is strictly increasing
StrictlyIncreasing(X) == \A k \in 1..(Len(X) - 1) : Gt(X[k + 1], X[k])

\* the table's X holds n interior latitudes, 1 degree apart from -89 degrees
\* on, between -pi/2 and +pi/2, and Y has as many entries, -pi/2 first and
\* +pi/2 last
TableShape(n) ==
    LET X == molldata[1]
        Y == molldata[2]
    IN  /\ Len(X) = n + 2 /\ Len(Y) = n + 2
        /\ X[1] = Neg(Div(pi, F(2))) /\ X[n + 2] = Div(pi, F(2))
        /\ \A k \in 1..n : X[k + 1] = Mul(F(k - 90), dtor)
        /\ X[n + 1] = Mul(F(89), dtor)
        /\ StrictlyIncreasing(X)
        /\ Y[1] = Neg(Div(pi, F(2))) /\ Y[n + 2] = Div(pi, F(2))

\* C4 as stated: the built table has exactly 178 interior sample latitudes,
\* 1 degree apart from -89 to +89 degrees, with -pi/2 prepended and +pi/2
\* appended, so that X and Y each have 180 entries, X is strictly increasing
\* and Y starts with -pi/2 and ends with +pi/2.
C4_Table180 == molldata # <<>> => TableShape(178)

\* C4 amended: the built table has exactly 179 interior sample latitudes,
\* 1 degree apart from -89 to +89 degrees, with -pi/2 prepended and +pi/2
\* appended, so that X and Y each have 181 entries, X is strictly increasing
\* and Y starts with -pi/2 and ends with +pi/2.
C4_Table181 == molldata # <<>> => TableShape(179)

\* C4 witness: a construction built the table, and it has 181 entries
C4_Witness ==
    /\ call.op = "MollweideProj" /\ builds = 1
    /\ Len(molldata) = 2 /\ Len(molldata[1]) = 181 /\ Len(molldata[2]) = 181

\* the multiplier the convention stands for
FlipOf(flipconv) == IF flipconv = "geo" THEN 1 ELSE -1

\* after a construction: failure for an unknown convention, otherwise the
\* new object carries the convention's multiplier
C5_FlipInv ==
    /\ proj # NoProj => proj.flip \in {-1, 1}
    /\ call.op \in Constructors =>
          IF call.args[2] \in {"None", "astro", "geo"}
          THEN ret.kind = "none" /\ proj.flip = FlipOf(call.args[2])
          ELSE ret = Raised("ValueError")

\* a call that is not a successful construction leaves the multiplier alone
C5_FlipStep ==
    (call'.op \notin Constructors \/ ret'.kind = "raise") => proj'.flip = proj.flip

\* C5: after a successful construction the flip multiplier is -1 for
\* flipconv 'astro' or unset and +1 for 'geo'; any other flipconv makes the
\* construction fail with ValueError; no conversion operation changes the
\* multiplier afterwards.
C5_FlipFixedAtConstruction == []C5_FlipInv /\ [][C5_FlipStep]_vars

\* C5 witness: a construction with an unknown convention failed with
\* ValueError and left the existing 'geo' projection with multiplier +1
C5_Witness ==
    /\ call.op \in Constructors /\ call.args[2] = "east"
    /\ ret = Raised("ValueError")
    /\ proj # NoProj /\ proj.flip = 1

\* the last call was xy2ij or ij2xy on a GnomonicProj or MollweideProj whose
\* array-info is None
NoInfoIndexCall ==
    /\ call.op \in {"xy2ij", "ij2xy"}
    /\ Concrete(proj) /\ proj.arrayinfo.isNone

\* an index conversion leaves the projection as it was
C6_IndexStep == call'.op \in {"xy2ij", "ij2xy"} => proj' = proj

\* C6: whenever the array-info of a GnomonicProj or MollweideProj is None,
\* xy2ij and ij2xy fail with TypeError for every argument combination,
\* computing no index or coordinate, and leave the projection unchanged.
C6_NoArrayInfoTypeError ==
    [](NoInfoIndexCall => ret = Raised("TypeError")) /\ [][C6_IndexStep]_vars

\* C6 witness: a MollweideProj constructed with xsize=None was asked for the
\* coordinates of a well-formed index pair and raised TypeError
C6_Witness ==
    /\ NoInfoIndexCall /\ proj.cls = "MollweideProj"
    /\ call.op = "ij2xy" /\ call.args = <<IInt(0), IInt(1)>>
    /\ ret = Raised("TypeError")

\* the last call was ij2xy on a GnomonicProj or MollweideProj with exactly one
\* of i and j given
OneIndexCall ==
    /\ call.op = "ij2xy" /\ Concrete(proj)
    /\ (call.args[1] = INone) # (call.args[2] = INone)

\* C7 as stated: a call of ij2xy in which exactly one of i and j is given,
\* whichever one it is, fails with an error and produces no coordinates.
C7_OneIndexFails == OneIndexCall => ret.kind = "raise"

\* C7 amended: a call of ij2xy in which only j is given, or only i and i is
\* a single integer, fails with TypeError; a call in which only i is given
\* and i is a pair (i0, j0) is unpacked and, when the array-info is set,
\* returns what ij2xy(i0, j0) returns.
C7_OneIndexUnpacked ==
    OneIndexCall =>
        IF call.args[1][1] = 2 /\ ~proj.arrayinfo.isNone
        THEN /\ ret.kind = "value"
             /\ ret = ij2xy(proj, IInt(call.args[1][2]), IInt(call.args[1][3]))
        ELSE ret = Raised("TypeError")

\* C7 witness: ij2xy((1, 2)) on a GnomonicProj returned the coordinates of
\* row 1, column 2
C7_Witness ==
    /\ OneIndexCall /\ proj.cls = "GnomonicProj"
    /\ call.args = <<IPair(1, 2), INone>>
    /\ ret.kind = "value" /\ ~IsNaN(ret.val[1]) /\ ~IsNaN(ret.val[2])
    /\ ret = ij2xy(proj, IInt(1), IInt(2))

\* the six operations SphericalProj leaves to its subclasses
AbstractOps == {"ang2xy", "vec2xy", "xy2ang", "xy2vec", "xy2ij", "ij2xy"}

\* the last call was one of the six operations on a SphericalProj itself
BaseCall == call.op \in AbstractOps /\ proj.cls = "SphericalProj"

\* C9 as stated: calling any of ang2xy, vec2xy, xy2ang, xy2vec, xy2ij, ij2xy
\* on the base type SphericalProj fails with a NotImplemented error rather
\* than returning a value.
C9_BaseRaises == BaseCall => ret.kind = "raise"

\* C9 amended: calling any of ang2xy, vec2xy, xy2ang, xy2vec, xy2ij, ij2xy
\* on the base type SphericalProj raises nothing and returns None, whatever
\* the arguments.
C9_BaseReturnsNone == BaseCall => ret = ReturnedNone

\* C9 witness: ij2xy(0, 1) on a SphericalProj returned None
C9_Witness ==
    /\ BaseCall /\ call.op = "ij2xy" /\ call.args = <<IInt(0), IInt(1)>>
    /\ ret = ReturnedNone

\* every thread has run its constructor and its conversion to the end
AllFinished == \A t \in Threads : threads[t].pc \in {"done", "failed"}

\* the threads that passed the emptiness check of __initialise_data
SawEmpty == {t \in Threads : threads[t].sawEmpty}

\* C10: the lazy-init guard (emptiness check, build, two appends, no lock)
\* does not prevent a duplicate build under concurrent construction: every
\* thread that passes the check appends its own X and Y, so that when all
\* threads have finished the table holds two sequences per such thread, and
\* an interleaving in which two threads pass the check (C10_Witness) leaves
\* more than two sequences in the shared table.
C10_DuplicateBuild ==
    /\ builds <= Cardinality(SawEmpty)
    /\ Len(molldata) <= 2 * builds
    /\ AllFinished =>
          /\ builds = Cardinality(SawEmpty)
          /\ Len(molldata) = 2 * builds

\* C10 witness: two threads constructed concurrently from an empty table,
\* both passed the check, and the table ended up with more than two sequences
C10_Witness ==
    /\ AllFinished
    /\ Cardinality(SawEmpty) >= 2
    /\ builds >= 2
    /\ Len(molldata) > 2

\* the last call was ij2xy() without arguments on a GnomonicProj with a plane
GnomonicFullGridCall ==
    /\ call.op = "ij2xy" /\ call.args = <<INone, INone>>
    /\ proj.cls = "GnomonicProj" /\ ~proj.arrayinfo.isNone

\* the last call was get_extent() on a GnomonicProj with a plane
GnomonicExtentCall ==
    /\ call.op = "get_extent"
    /\ proj.cls = "GnomonicProj" /\ ~proj.arrayinfo.isNone

\* the grid g has nrows rows of ncols entries each
GridShape(g, nrows, ncols) ==
    /\ Len(g) = nrows
    /\ \A a \in 1..nrows : Len(g[a]) = ncols

\* C11 as stated: for a GnomonicProj with any xsize and ysize, the grid that
\* ij2xy() returns has ysize rows (index i) and xsize columns (index j), its
\* entry at (i, j) is ij2xy(i, j), its opposite corners are opposite points
\* about the plane centre, and get_extent() is symmetric: left = -right and
\* bottom = -top.
C11_GridCentredExtentSymmetric ==
    /\ GnomonicFullGridCall =>
          /\ ret.kind = "value"
          /\ GridShape(ret.val.x, proj.arrayinfo.ysize, proj.arrayinfo.xsize)
          /\ GridShape(ret.val.y, proj.arrayinfo.ysize, proj.arrayinfo.xsize)
          /\ \A i \in 0..(proj.arrayinfo.ysize - 1), j \in 0..(proj.arrayinfo.xsize - 1) :
                <<ret.val.x[i + 1][j + 1], ret.val.y[i + 1][j + 1]>>
                    = Gnomonic_ij2xy(proj, IInt(i), IInt(j)).val
          /\ ret.val.x[1][1]
                = Neg(ret.val.x[proj.arrayinfo.ysize][proj.arrayinfo.xsize])
          /\ ret.val.y[1][1]
                = Neg(ret.val.y[proj.arrayinfo.ysize][proj.arrayinfo.xsize])
    /\ GnomonicExtentCall =>
          /\ ret.kind = "value"
          /\ ret.val[1] = Neg(ret.val[2])
          /\ ret.val[3] = Neg(ret.val[4])

====
